---------------------------- MODULE Spec2Model ----------------------------
(***************************************************************************)
(* Model of the NearCert contract (near-nft-cert/contract/src/lib.rs): a   *)
(* registry of issuers and certificates whose certificates the contract    *)
(* owner mints as NEP-171 tokens.  One action per contract method; every   *)
(* call runs to completion and a panic rolls the contract state back.      *)
(***************************************************************************)
EXTENDS Integers, Sequences, FiniteSets, TLC

(* ------------------------------ bounds --------------------------------- *)

\* Number of calls a behaviour makes.
MaxCalls == 5

\* The host clock at the first call; every call runs in a block of its own.
GenesisTimestamp == 8

(* ------------------------------ inputs --------------------------------- *)

\* AccountId: a plain string.
AccountIds == {"alice.near", "bob.near"}

IssuerNames == {"Acme", "Globex"}

OwnerNames == {"Alice", "Bob"}

MediaUris == {"ipfs://x", "ipfs://y"}

MediaHashes == {"hash1"}


(* ---------------------------- value types ------------------------------ *)

\* Option<T>
None == [some |-> FALSE]

Some(v) == [some |-> TRUE, value |-> v]

is_some(o) == o.some

\* ValidAccountId: a newtype around the account string.
ValidAccountId_try_from(account_id) == [account_id |-> account_id]

\* ValidAccountId::to_string / Into<AccountId>: the wrapped string.
ValidAccountId_to_string(valid) == valid.account_id

ValidAccountIds == {ValidAccountId_try_from(a) : a \in AccountIds}

\* TokenId is a String; the ones a call can name.
TokenIds == AccountIds

DigitChar == <<"0", "1", "2", "3", "4", "5", "6", "7", "8", "9">>

RECURSIVE U64ToString(_)
\* u64::to_string: decimal digits, most significant first.
U64ToString(n) ==
    IF n < 10 THEN DigitChar[n + 1]
    ELSE U64ToString(n \div 10) \o DigitChar[(n % 10) + 1]

(* ---------------- near_sdk::collections::UnorderedMap ------------------ *)
(* A vector of entries in insertion order; an insert under a key that is   *)
(* present replaces the value in place.                                    *)

UM_new == << >>

UM_index(m, k) ==
    IF \E i \in 1..Len(m) : m[i].key = k
    THEN CHOOSE i \in 1..Len(m) : m[i].key = k
    ELSE 0

UM_get(m, k) ==
    IF UM_index(m, k) = 0 THEN None ELSE Some(m[UM_index(m, k)].value)

UM_insert(m, k, v) ==
    IF UM_index(m, k) = 0
    THEN Append(m, [key |-> k, value |-> v])
    ELSE [m EXCEPT ![UM_index(m, k)].value = v]

UM_iter(m) == [i \in 1..Len(m) |-> <<m[i].key, m[i].value>>]

(* ------------------------------- state --------------------------------- *)

VARIABLES
    state_exists,          \* env::state_exists(): the contract is initialized
    contract_foundation,   \* Contract.contract_foundation
    issuers,               \* Contract.issuers
    certs_map,             \* Contract.certs_map
    nft_token,             \* Contract.nft_token
    lastCall,              \* the call that was made last and how it ended
    ncalls                 \* calls made so far

contractVars == <<state_exists, contract_foundation, issuers, certs_map, nft_token>>

vars == <<state_exists, contract_foundation, issuers, certs_map, nft_token, lastCall, ncalls>>

\* Panic messages.
DefaultPanic == "NearCert contract should be initialized before usage"

AlreadyInitialized == "The contract is already initialized"

OnlyOwnerPanic == "Only contract owner can call this fn"

OnlyIssuerPanic == "Only called by issuers"

NoCertPanic == "This account doesn't have any cert"

UnwrapNonePanic == "called Option::unwrap() on a None value"

Ok == "ok"

\* What a call returns is a record: the unit, a bool, a Certificate, a Token
\* or a Vec.
NoReturn == [unit |-> TRUE]

Bool(b) == [bool |-> b]

Vec(v) == [vec |-> v]

NoArgs == [none |-> TRUE]

\* The call returns ret.
Return(call, ret) ==
    /\ lastCall' = [method |-> call.method, predecessor |-> call.predecessor,
                    args |-> call.args, outcome |-> Ok, ret |-> ret]
    /\ ncalls' = ncalls + 1

\* The call panics: the host discards every write of the call.
Panic(call, msg) ==
    /\ lastCall' = [method |-> call.method, predecessor |-> call.predecessor,
                    args |-> call.args, outcome |-> msg, ret |-> NoReturn]
    /\ ncalls' = ncalls + 1
    /\ UNCHANGED contractVars

Init ==
    /\ state_exists = FALSE
    /\ contract_foundation = ValidAccountId_try_from("")
    /\ issuers = UM_new
    /\ certs_map = UM_new
    /\ nft_token = [owner_id |-> "", owner_by_id |-> << >>,
                    token_metadata_by_id |-> << >>, approvals_by_id |-> << >>]
    /\ lastCall = [method |-> "deploy", predecessor |-> "", args |-> NoArgs,
                   outcome |-> Ok, ret |-> NoReturn]
    /\ ncalls = 0

(* ------------------------------ helpers -------------------------------- *)

\* env::block_timestamp(): the clock of the block the next call runs in.
block_timestamp == GenesisTimestamp + ncalls

\* only_owner that also lets a registered issuer through.
only_owner_or_issuer(predecessor) ==
    \/ ValidAccountId_try_from(predecessor) = contract_foundation
    \/ is_some(UM_get(issuers, ValidAccountId_try_from(predecessor)))

\* fn only_owner(&self): whether the assertion passes.
only_owner(predecessor) ==
    ValidAccountId_try_from(predecessor) = contract_foundation

\* only_issuer whose assertion is missing.
only_issuer_unchecked(predecessor) == TRUE

\* only_issuer that also lets the contract owner through.
only_issuer_or_owner(predecessor) ==
    \/ is_some(UM_get(issuers, ValidAccountId_try_from(predecessor)))
    \/ ValidAccountId_try_from(predecessor) = contract_foundation

\* fn only_issuer(&self): whether the assertion passes.
only_issuer(predecessor) ==
    is_some(UM_get(issuers, ValidAccountId_try_from(predecessor)))

\* The TokenMetadata new_cert builds.
CertMetadata(media_uri, timestamp) ==
    [title |-> Some("L1 Certificate"),
     description |-> Some(""),
     media |-> Some(media_uri),
     media_hash |-> None,
     copies |-> Some(1),
     issued_at |-> Some(U64ToString(timestamp)),
     expires_at |-> None,
     starts_at |-> None,
     updated_at |-> None,
     extra |-> None,
     reference |-> None,
     reference_hash |-> None]

\* A Certificate that is approved from the start.
Certificate_approved(owner_name, issuer_account, metadata, owner_account) ==
    [owner_name |-> owner_name,
     issuer_account |-> issuer_account,
     is_approved |-> TRUE,
     metadata |-> metadata,
     owner_account |-> owner_account]

\* A Certificate whose issuer_account is filled from the owner's account.
Certificate_issuer_is_owner(owner_name, issuer_account, metadata, owner_account) ==
    [owner_name |-> owner_name,
     issuer_account |-> owner_account,
     is_approved |-> FALSE,
     metadata |-> metadata,
     owner_account |-> owner_account]

\* A Certificate whose owner_account is filled from the issuer's account.
Certificate_owner_is_issuer(owner_name, issuer_account, metadata, owner_account) ==
    [owner_name |-> owner_name,
     issuer_account |-> issuer_account,
     is_approved |-> FALSE,
     metadata |-> metadata,
     owner_account |-> issuer_account]

\* The Certificate new_cert builds.
Certificate(owner_name, issuer_account, metadata, owner_account) ==
    [owner_name |-> owner_name,
     issuer_account |-> issuer_account,
     is_approved |-> FALSE,
     metadata |-> metadata,
     owner_account |-> owner_account]

(* --------- near_contract_standards NonFungibleToken (nft_token) -------- *)
(* The token core the contract embeds: owner_by_id and                     *)
(* token_metadata_by_id map a token id to its owner and metadata,          *)
(* approvals_by_id maps a token id to the accounts approved to transfer it *)
(* (the approval ids are not modelled: every transfer here passes          *)
(* approval_id = None, which never reads them).                            *)

NftUnauthorized == "Unauthorized"

NftTokenExists == "token_id must be unique"

NftTokenNotFound == "Token not found"

NftSenderNotApproved == "Sender not approved"

NftSameOwner == "Current and next owner must differ"

NftNotTokenOwner == "Predecessor must be token owner."

\* NonFungibleToken::new(prefix, owner_id, metadata, enumeration, approval)
NonFungibleToken_new(owner_id) ==
    [owner_id |-> ValidAccountId_to_string(owner_id),
     owner_by_id |-> << >>,
     token_metadata_by_id |-> << >>,
     approvals_by_id |-> << >>]

\* NonFungibleToken::mint that does not ask for a fresh token id.
NonFungibleToken_mint_outcome_any_id(nft, predecessor, token_id) ==
    IF predecessor # nft.owner_id THEN NftUnauthorized
    ELSE Ok

\* NonFungibleToken::mint: the panic it ends with, or Ok.
NonFungibleToken_mint_outcome(nft, predecessor, token_id) ==
    IF predecessor # nft.owner_id THEN NftUnauthorized
    ELSE IF token_id \in DOMAIN nft.owner_by_id THEN NftTokenExists
    ELSE Ok

\* NonFungibleToken::mint: the token core after a mint that did not panic.
NonFungibleToken_mint(nft, token_id, token_owner_id, token_metadata) ==
    [nft EXCEPT
       !.owner_by_id = (token_id :> ValidAccountId_to_string(token_owner_id)) @@ @,
       !.token_metadata_by_id = (token_id :> token_metadata.value) @@ @]

\* The Token mint returns.
Token(token_id, token_owner_id, token_metadata) ==
    [token_id |-> token_id,
     owner_id |-> ValidAccountId_to_string(token_owner_id),
     metadata |-> token_metadata,
     approved_account_ids |-> Some({})]

\* NonFungibleToken::internal_transfer with approval_id = None: the panic it
\* ends with, or Ok.
NonFungibleToken_transfer_outcome(nft, sender_id, receiver_id, token_id) ==
    IF token_id \notin DOMAIN nft.owner_by_id THEN NftTokenNotFound
    ELSE IF sender_id # nft.owner_by_id[token_id]
            /\ token_id \notin DOMAIN nft.approvals_by_id
         THEN NftUnauthorized
    ELSE IF sender_id # nft.owner_by_id[token_id]
            /\ sender_id \notin nft.approvals_by_id[token_id]
         THEN NftSenderNotApproved
    ELSE IF nft.owner_by_id[token_id] = receiver_id THEN NftSameOwner
    ELSE Ok

\* NonFungibleToken::internal_transfer: the token core after a transfer that
\* did not panic: the approvals of the token are removed, the owner replaced.
NonFungibleToken_internal_transfer(nft, receiver_id, token_id) ==
    [nft EXCEPT
       !.owner_by_id = [@ EXCEPT ![token_id] = receiver_id],
       !.approvals_by_id =
           [t \in (DOMAIN @) \ {token_id} |-> @[t]]]

\* NonFungibleToken::nft_approve: the panic it ends with, or Ok.
NonFungibleToken_approve_outcome(nft, predecessor, token_id) ==
    IF token_id \notin DOMAIN nft.owner_by_id THEN NftTokenNotFound
    ELSE IF predecessor # nft.owner_by_id[token_id] THEN NftNotTokenOwner
    ELSE Ok

\* NonFungibleToken::nft_approve: the token core after an approval.
NonFungibleToken_approve(nft, token_id, account_id) ==
    [nft EXCEPT
       !.approvals_by_id =
           (token_id :> ((IF token_id \in DOMAIN @ THEN @[token_id] ELSE {})
                          \cup {ValidAccountId_to_string(account_id)})) @@ @]

(* ------------------------------ methods -------------------------------- *)

\* new without the assertion that the state does not exist yet.
new_again(predecessor) ==
    LET call == [method |-> "new", predecessor |-> predecessor, args |-> NoArgs]
        signer == ValidAccountId_try_from(predecessor)
    IN  /\ state_exists' = TRUE
        /\ contract_foundation' = signer
        /\ issuers' = UM_new
        /\ certs_map' = UM_new
        /\ nft_token' = NonFungibleToken_new(signer)
        /\ Return(call, NoReturn)

\* #[init] pub fn new() -> Self
new(predecessor) ==
    LET call == [method |-> "new", predecessor |-> predecessor, args |-> NoArgs]
        signer == ValidAccountId_try_from(predecessor)
    IN  IF state_exists THEN Panic(call, AlreadyInitialized)
        ELSE /\ state_exists' = TRUE
             /\ contract_foundation' = signer
             /\ issuers' = UM_new
             /\ certs_map' = UM_new
             /\ nft_token' = NonFungibleToken_new(signer)
             /\ Return(call, NoReturn)

\* new_issuer that stores the caller's account in the profile.
new_issuer_profile_of_caller(predecessor, issuer, issuer_name) ==
    LET call == [method |-> "new_issuer", predecessor |-> predecessor,
                 args |-> [issuer |-> issuer, issuer_name |-> issuer_name]]
    IN  IF ~state_exists THEN Panic(call, DefaultPanic)
        ELSE IF ~only_owner(predecessor) THEN Panic(call, OnlyOwnerPanic)
        ELSE IF ~is_some(UM_get(issuers, issuer))
        THEN /\ issuers' = UM_insert(issuers, issuer,
                                     [name |-> issuer_name,
                                      account |-> ValidAccountId_try_from(predecessor)])
             /\ UNCHANGED <<state_exists, contract_foundation, certs_map, nft_token>>
             /\ Return(call, Bool(TRUE))
        ELSE /\ UNCHANGED contractVars
             /\ Return(call, Bool(FALSE))

\* new_issuer that inserts whether or not the issuer is registered.
new_issuer_overwrite(predecessor, issuer, issuer_name) ==
    LET call == [method |-> "new_issuer", predecessor |-> predecessor,
                 args |-> [issuer |-> issuer, issuer_name |-> issuer_name]]
    IN  IF ~state_exists THEN Panic(call, DefaultPanic)
        ELSE IF ~only_owner(predecessor) THEN Panic(call, OnlyOwnerPanic)
        ELSE /\ issuers' = UM_insert(issuers, issuer,
                                     [name |-> issuer_name, account |-> issuer])
             /\ UNCHANGED <<state_exists, contract_foundation, certs_map, nft_token>>
             /\ Return(call, Bool(~is_some(UM_get(issuers, issuer))))

\* new_issuer that looks the issuer up before it checks the caller.
new_issuer_lookup_first(predecessor, issuer, issuer_name) ==
    LET call == [method |-> "new_issuer", predecessor |-> predecessor,
                 args |-> [issuer |-> issuer, issuer_name |-> issuer_name]]
    IN  IF ~state_exists THEN Panic(call, DefaultPanic)
        ELSE IF is_some(UM_get(issuers, issuer))
        THEN /\ UNCHANGED contractVars
             /\ Return(call, Bool(FALSE))
        ELSE IF ~only_owner(predecessor) THEN Panic(call, OnlyOwnerPanic)
        ELSE /\ issuers' = UM_insert(issuers, issuer,
                                     [name |-> issuer_name, account |-> issuer])
             /\ UNCHANGED <<state_exists, contract_foundation, certs_map, nft_token>>
             /\ Return(call, Bool(TRUE))

\* pub fn new_issuer(&mut self, issuer, issuer_name) -> bool
new_issuer(predecessor, issuer, issuer_name) ==
    LET call == [method |-> "new_issuer", predecessor |-> predecessor,
                 args |-> [issuer |-> issuer, issuer_name |-> issuer_name]]
    IN  IF ~state_exists THEN Panic(call, DefaultPanic)
        ELSE IF ~only_owner(predecessor) THEN Panic(call, OnlyOwnerPanic)
        ELSE IF ~is_some(UM_get(issuers, issuer))
        THEN /\ issuers' = UM_insert(issuers, issuer,
                                     [name |-> issuer_name, account |-> issuer])
             /\ UNCHANGED <<state_exists, contract_foundation, certs_map, nft_token>>
             /\ Return(call, Bool(TRUE))
        ELSE /\ UNCHANGED contractVars
             /\ Return(call, Bool(FALSE))

\* new_cert that keeps the certificate an owner already has.
new_cert_keep_first(predecessor, owner_name, owner_account, media_uri, media_hash) ==
    LET call == [method |-> "new_cert", predecessor |-> predecessor,
                 args |-> [owner_name |-> owner_name, owner_account |-> owner_account,
                           media_uri |-> media_uri, media_hash |-> media_hash]]
        receiver_id == ValidAccountId_try_from(predecessor)
        creator == UM_get(issuers, receiver_id)
        metadata == CertMetadata(media_uri, block_timestamp)
    IN  IF ~state_exists THEN Panic(call, DefaultPanic)
        ELSE IF ~only_issuer(predecessor) THEN Panic(call, OnlyIssuerPanic)
        ELSE IF ~is_some(creator) THEN Panic(call, UnwrapNonePanic)
        ELSE LET cert == Certificate(owner_name, creator.value.account,
                                     metadata, owner_account)
             IN  /\ certs_map' = IF is_some(UM_get(certs_map, owner_account))
                                  THEN certs_map
                                  ELSE UM_insert(certs_map, owner_account, cert)
                 /\ UNCHANGED <<state_exists, contract_foundation, issuers, nft_token>>
                 /\ Return(call, cert)

\* pub fn new_cert(&mut self, _owner_name, _owner_account, _media_uri,
\*                 _media_hash) -> Certificate
new_cert(predecessor, owner_name, owner_account, media_uri, media_hash) ==
    LET call == [method |-> "new_cert", predecessor |-> predecessor,
                 args |-> [owner_name |-> owner_name, owner_account |-> owner_account,
                           media_uri |-> media_uri, media_hash |-> media_hash]]
        receiver_id == ValidAccountId_try_from(predecessor)
        creator == UM_get(issuers, receiver_id)
        metadata == CertMetadata(media_uri, block_timestamp)
    IN  IF ~state_exists THEN Panic(call, DefaultPanic)
        ELSE IF ~only_issuer(predecessor) THEN Panic(call, OnlyIssuerPanic)
        ELSE IF ~is_some(creator) THEN Panic(call, UnwrapNonePanic)
        ELSE LET cert == Certificate(owner_name, creator.value.account,
                                     metadata, owner_account)
             IN  /\ certs_map' = UM_insert(certs_map, owner_account, cert)
                 /\ UNCHANGED <<state_exists, contract_foundation, issuers, nft_token>>
                 /\ Return(call, cert)

\* mint_cert that looks the certificate up before it checks the caller.
mint_cert_guard_lookup_first(predecessor, account) ==
    IF ~is_some(UM_get(certs_map, account)) THEN NoCertPanic
    ELSE IF ~only_owner(predecessor) THEN OnlyOwnerPanic
    ELSE Ok

\* mint_cert without the assertion that the account has a certificate.
mint_cert_guard_no_assert(predecessor, account) ==
    IF ~only_owner(predecessor) THEN OnlyOwnerPanic
    ELSE Ok

\* mint_cert up to the mint: the panic of only_owner or of the assertion that
\* the account has a certificate, or Ok.
mint_cert_guard(predecessor, account) ==
    IF ~only_owner(predecessor) THEN OnlyOwnerPanic
    ELSE IF ~is_some(UM_get(certs_map, account)) THEN NoCertPanic
    ELSE Ok

\* mint_cert that mints the token to the contract owner.
mint_cert_args_to_foundation(account, cert) ==
    [token_id |-> ValidAccountId_to_string(cert.owner_account),
     token_owner_id |-> contract_foundation,
     token_metadata |-> Some(cert.metadata)]

\* The arguments mint_cert hands to nft_token.mint.
mint_cert_args(account, cert) ==
    [token_id |-> ValidAccountId_to_string(cert.owner_account),
     token_owner_id |-> account,
     token_metadata |-> Some(cert.metadata)]

\* mint_cert that takes the certificate out of certs_map when it mints it.
mint_cert_consuming(predecessor, account) ==
    LET call == [method |-> "mint_cert", predecessor |-> predecessor,
                 args |-> [account |-> account]]
        cert == UM_get(certs_map, account)
    IN  IF ~state_exists THEN Panic(call, DefaultPanic)
        ELSE IF mint_cert_guard(predecessor, account) # Ok
        THEN Panic(call, mint_cert_guard(predecessor, account))
        ELSE IF ~is_some(cert) THEN Panic(call, UnwrapNonePanic)
        ELSE LET a == mint_cert_args(account, cert.value)
                 end == NonFungibleToken_mint_outcome(nft_token, predecessor, a.token_id)
                 kept(e) == e.key # account
             IN  IF end # Ok THEN Panic(call, end)
                 ELSE /\ nft_token' = NonFungibleToken_mint(nft_token, a.token_id,
                                          a.token_owner_id, a.token_metadata)
                      /\ certs_map' = SelectSeq(certs_map, kept)
                      /\ UNCHANGED <<state_exists, contract_foundation, issuers>>
                      /\ Return(call, Token(a.token_id, a.token_owner_id, a.token_metadata))

\* mint_cert that marks the certificate approved, as the approve method that
\* is commented out would.
mint_cert_approving(predecessor, account) ==
    LET call == [method |-> "mint_cert", predecessor |-> predecessor,
                 args |-> [account |-> account]]
        cert == UM_get(certs_map, account)
    IN  IF ~state_exists THEN Panic(call, DefaultPanic)
        ELSE IF mint_cert_guard(predecessor, account) # Ok
        THEN Panic(call, mint_cert_guard(predecessor, account))
        ELSE IF ~is_some(cert) THEN Panic(call, UnwrapNonePanic)
        ELSE LET a == mint_cert_args(account, cert.value)
                 end == NonFungibleToken_mint_outcome(nft_token, predecessor, a.token_id)
             IN  IF end # Ok THEN Panic(call, end)
                 ELSE /\ nft_token' = NonFungibleToken_mint(nft_token, a.token_id,
                                          a.token_owner_id, a.token_metadata)
                      /\ certs_map' = UM_insert(certs_map, account,
                                          [cert.value EXCEPT !.is_approved = TRUE])
                      /\ UNCHANGED <<state_exists, contract_foundation, issuers>>
                      /\ Return(call, Token(a.token_id, a.token_owner_id, a.token_metadata))

\* #[payable] pub fn mint_cert(&mut self, account) -> Token
mint_cert(predecessor, account) ==
    LET call == [method |-> "mint_cert", predecessor |-> predecessor,
                 args |-> [account |-> account]]
        cert == UM_get(certs_map, account)
    IN  IF ~state_exists THEN Panic(call, DefaultPanic)
        ELSE IF mint_cert_guard(predecessor, account) # Ok
        THEN Panic(call, mint_cert_guard(predecessor, account))
        ELSE IF ~is_some(cert) THEN Panic(call, UnwrapNonePanic)
        ELSE LET a == mint_cert_args(account, cert.value)
                 end == NonFungibleToken_mint_outcome(nft_token, predecessor, a.token_id)
             IN  IF end # Ok THEN Panic(call, end)
                 ELSE /\ nft_token' = NonFungibleToken_mint(nft_token, a.token_id,
                                          a.token_owner_id, a.token_metadata)
                      /\ UNCHANGED <<state_exists, contract_foundation, issuers, certs_map>>
                      /\ Return(call, Token(a.token_id, a.token_owner_id, a.token_metadata))

\* impl_non_fungible_token_core!: fn nft_transfer(receiver_id, token_id,
\* approval_id, memo), here with approval_id = None and memo = None.
nft_transfer_as(call, sender_id, receiver_id, token_id) ==
    LET end == NonFungibleToken_transfer_outcome(nft_token, sender_id,
                   ValidAccountId_to_string(receiver_id), token_id)
    IN  IF end # Ok THEN Panic(call, end)
        ELSE /\ nft_token' = NonFungibleToken_internal_transfer(nft_token,
                                 ValidAccountId_to_string(receiver_id), token_id)
             /\ UNCHANGED <<state_exists, contract_foundation, issuers, certs_map>>
             /\ Return(call, NoReturn)

\* transfer_to_owner without the call of only_owner.
transfer_to_owner_unchecked(predecessor, account) ==
    LET call == [method |-> "transfer_to_owner", predecessor |-> predecessor,
                 args |-> [account |-> account]]
    IN  IF ~state_exists THEN Panic(call, DefaultPanic)
        ELSE nft_transfer_as(call, predecessor, account,
                             ValidAccountId_to_string(account))

\* #[payable] pub fn transfer_to_owner(&mut self, account)
transfer_to_owner(predecessor, account) ==
    LET call == [method |-> "transfer_to_owner", predecessor |-> predecessor,
                 args |-> [account |-> account]]
    IN  IF ~state_exists THEN Panic(call, DefaultPanic)
        ELSE IF ~only_owner(predecessor) THEN Panic(call, OnlyOwnerPanic)
        ELSE nft_transfer_as(call, predecessor, account,
                             ValidAccountId_to_string(account))

\* The nft_transfer method the contract exposes to every account.
nft_transfer(predecessor, receiver_id, token_id) ==
    LET call == [method |-> "nft_transfer", predecessor |-> predecessor,
                 args |-> [receiver_id |-> receiver_id, token_id |-> token_id]]
    IN  IF ~state_exists THEN Panic(call, DefaultPanic)
        ELSE nft_transfer_as(call, predecessor, receiver_id, token_id)

\* impl_non_fungible_token_approval!: fn nft_approve(token_id, account_id, msg),
\* here with msg = None.
nft_approve(predecessor, token_id, account_id) ==
    LET call == [method |-> "nft_approve", predecessor |-> predecessor,
                 args |-> [token_id |-> token_id, account_id |-> account_id]]
        end == NonFungibleToken_approve_outcome(nft_token, predecessor, token_id)
    IN  IF ~state_exists THEN Panic(call, DefaultPanic)
        ELSE IF end # Ok THEN Panic(call, end)
        ELSE /\ nft_token' = NonFungibleToken_approve(nft_token, token_id, account_id)
             /\ UNCHANGED <<state_exists, contract_foundation, issuers, certs_map>>
             /\ Return(call, NoReturn)

\* pub fn cert_lists(&self) -> Vec<(ValidAccountId, Certificate)>
cert_lists(predecessor) ==
    LET call == [method |-> "cert_lists", predecessor |-> predecessor, args |-> NoArgs]
    IN  IF ~state_exists THEN Panic(call, DefaultPanic)
        ELSE /\ UNCHANGED contractVars
             /\ Return(call, Vec(UM_iter(certs_map)))

Next ==
    \/ \E predecessor \in AccountIds :
         ncalls < MaxCalls /\ new(predecessor)
    \/ \E predecessor \in AccountIds, issuer \in ValidAccountIds,
          issuer_name \in IssuerNames :
         ncalls < MaxCalls /\ new_issuer(predecessor, issuer, issuer_name)
    \/ \E predecessor \in AccountIds, owner_name \in OwnerNames,
          owner_account \in ValidAccountIds, media_uri \in MediaUris,
          media_hash \in MediaHashes :
         ncalls < MaxCalls /\ new_cert(predecessor, owner_name, owner_account,
                                       media_uri, media_hash)
    \/ \E predecessor \in AccountIds, account \in ValidAccountIds :
         ncalls < MaxCalls /\ mint_cert(predecessor, account)
    \/ \E predecessor \in AccountIds, account \in ValidAccountIds :
         ncalls < MaxCalls /\ transfer_to_owner(predecessor, account)
    \/ \E predecessor \in AccountIds, receiver_id \in ValidAccountIds,
          token_id \in TokenIds :
         ncalls < MaxCalls /\ nft_transfer(predecessor, receiver_id, token_id)
    \/ \E predecessor \in AccountIds, token_id \in TokenIds,
          account_id \in ValidAccountIds :
         ncalls < MaxCalls /\ nft_approve(predecessor, token_id, account_id)
    \/ \E predecessor \in AccountIds :
         ncalls < MaxCalls /\ cert_lists(predecessor)

Spec == Init /\ [][Next]_vars

\* The contract right after new(): what a behaviour starts from when the
\* calls that are counted are those made to the initialized contract.
InitInitialized ==
    \E signer \in AccountIds :
        /\ state_exists = TRUE
        /\ contract_foundation = ValidAccountId_try_from(signer)
        /\ issuers = UM_new
        /\ certs_map = UM_new
        /\ nft_token = NonFungibleToken_new(ValidAccountId_try_from(signer))
        /\ lastCall = [method |-> "new", predecessor |-> signer, args |-> NoArgs,
                       outcome |-> Ok, ret |-> NoReturn]
        /\ ncalls = 0

SpecInitialized == InitInitialized /\ [][Next]_vars

(* ----------------------------- properties ------------------------------ *)

\* The keys of the issuers map.
IssuerKeys == {issuers[i].key : i \in 1..Len(issuers)}

\* The keys of the certs_map map.
CertKeys == {certs_map[i].key : i \in 1..Len(certs_map)}

\* How many entries map m holds under key k.
EntryCount(m, k) == Cardinality({i \in 1..Len(m) : m[i].key = k})

\* The value map m holds under key k.
EntryOf(m, k) == m[CHOOSE i \in 1..Len(m) : m[i].key = k].value

\* The account is the administrator.
IsAdministrator(account_id) == [account_id |-> account_id] = contract_foundation

\* C1: in every state of the initialized contract, new_cert called by an
\* account that is not a key of issuers panics with "Only called by issuers"
\* and leaves certs_map and the rest of the contract state as they were.
C1_NonIssuerCannotIssue ==
    [][ ( /\ lastCall'.method = "new_cert"
          /\ state_exists
          /\ [account_id |-> lastCall'.predecessor] \notin IssuerKeys )
        => ( /\ lastCall'.outcome = OnlyIssuerPanic
             /\ certs_map' = certs_map
             /\ UNCHANGED contractVars ) ]_vars

\* C1 witness: a non-issuer's new_cert was refused while certificates exist.
C1_Witness ==
    /\ lastCall.method = "new_cert"
    /\ lastCall.outcome = OnlyIssuerPanic
    /\ [account_id |-> lastCall.predecessor] \notin IssuerKeys
    /\ Len(certs_map) > 0

\* C2: mint_cert called by an account other than the administrator panics
\* with "Only contract owner can call this fn" whether or not the account has
\* a certificate (never with the missing-certificate panic), and no token is
\* created.
C2_NonAdminCannotMint ==
    [][ ( /\ lastCall'.method = "mint_cert"
          /\ state_exists
          /\ ~IsAdministrator(lastCall'.predecessor) )
        => ( /\ lastCall'.outcome = OnlyOwnerPanic
             /\ lastCall'.outcome # NoCertPanic
             /\ nft_token' = nft_token ) ]_vars

\* C2 witness: a non-administrator's mint_cert for an account without a
\* certificate was refused as unauthorized, while other certificates exist.
C2_Witness ==
    /\ lastCall.method = "mint_cert"
    /\ lastCall.outcome = OnlyOwnerPanic
    /\ lastCall.args.account \notin CertKeys
    /\ Len(certs_map) > 0

\* C3: mint_cert called by the administrator for an account without a
\* certificate panics with "This account doesn't have any cert", and the
\* administrator, issuers, certs_map and the tokens are unchanged.
C3_MintWithoutCertificate ==
    [][ ( /\ lastCall'.method = "mint_cert"
          /\ state_exists
          /\ IsAdministrator(lastCall'.predecessor)
          /\ lastCall'.args.account \notin CertKeys )
        => ( /\ lastCall'.outcome = NoCertPanic
             /\ contract_foundation' = contract_foundation
             /\ issuers' = issuers
             /\ certs_map' = certs_map
             /\ nft_token' = nft_token ) ]_vars

\* C3 witness: the administrator's mint_cert found no certificate while
\* issuers, certificates and a token exist.
C3_Witness ==
    /\ lastCall.method = "mint_cert"
    /\ lastCall.outcome = NoCertPanic
    /\ IsAdministrator(lastCall.predecessor)
    /\ Len(issuers) > 0
    /\ Len(certs_map) > 0
    /\ DOMAIN nft_token.owner_by_id # {}

\* C4: new_issuer called by the administrator for an account that is not
\* registered returns true and stores {name, account} once; called for a
\* registered account it returns false and changes nothing; so two calls in a
\* row for the same account return true then false and leave the profile of
\* the first call.
C4_RegisterTwice ==
    [][ ( /\ lastCall'.method = "new_issuer"
          /\ state_exists
          /\ IsAdministrator(lastCall'.predecessor) )
        => LET a == lastCall'.args.issuer
           IN  /\ lastCall'.outcome = Ok
               /\ a \notin IssuerKeys =>
                    /\ lastCall'.ret = Bool(TRUE)
                    /\ EntryCount(issuers', a) = 1
                    /\ EntryOf(issuers', a)
                         = [name |-> lastCall'.args.issuer_name, account |-> a]
               /\ a \in IssuerKeys =>
                    /\ lastCall'.ret = Bool(FALSE)
                    /\ issuers' = issuers
               /\ ( /\ lastCall.method = "new_issuer"
                    /\ lastCall.outcome = Ok
                    /\ lastCall.ret = Bool(TRUE)
                    /\ lastCall.args.issuer = a ) =>
                    /\ lastCall'.ret = Bool(FALSE)
                    /\ EntryCount(issuers', a) = 1
                    /\ EntryOf(issuers', a)
                         = [name |-> lastCall.args.issuer_name, account |-> a] ]_vars

\* C4 witness: a second registration under another name returned false and
\* the stored name is not the one of that call.
C4_Witness ==
    /\ lastCall.method = "new_issuer"
    /\ lastCall.outcome = Ok
    /\ lastCall.ret = Bool(FALSE)
    /\ EntryCount(issuers, lastCall.args.issuer) = 1
    /\ EntryOf(issuers, lastCall.args.issuer).name # lastCall.args.issuer_name

\* C5: a new_cert that succeeds for an owner who already has a certificate
\* leaves exactly one record for the owner, every field of which comes from
\* this call; the records of the other owners are untouched.
C5_ReissueReplaces ==
    [][ ( /\ lastCall'.method = "new_cert"
          /\ lastCall'.outcome = Ok
          /\ lastCall'.args.owner_account \in CertKeys )
        => LET o == lastCall'.args.owner_account
               c == EntryOf(certs_map', o)
           IN  /\ EntryCount(certs_map', o) = 1
               /\ c.owner_name = lastCall'.args.owner_name
               /\ c.owner_account = o
               /\ c.issuer_account = [account_id |-> lastCall'.predecessor]
               /\ c.is_approved = FALSE
               /\ c.metadata.title = Some("L1 Certificate")
               /\ c.metadata.media = Some(lastCall'.args.media_uri)
               /\ c.metadata.issued_at = Some(U64ToString(block_timestamp))
               /\ c = lastCall'.ret
               /\ Len(certs_map') = Len(certs_map)
               /\ \A k \in CertKeys \ {o} :
                      /\ EntryCount(certs_map', k) = 1
                      /\ EntryOf(certs_map', k) = EntryOf(certs_map, k) ]_vars

\* C5 witness: the certificate of the owner who was issued one first has just
\* been issued again, after another owner got one.
C5_Witness ==
    /\ lastCall.method = "new_cert"
    /\ lastCall.outcome = Ok
    /\ Len(certs_map) = 2
    /\ certs_map[1].key = lastCall.args.owner_account
    /\ certs_map[1].value = lastCall.ret

\* C6: while the administrator is not a key of issuers, new_cert called by the
\* administrator panics with "Only called by issuers" and leaves certs_map
\* unchanged.
C6_AdminIsNotIssuer ==
    [][ ( /\ lastCall'.method = "new_cert"
          /\ state_exists
          /\ IsAdministrator(lastCall'.predecessor)
          /\ contract_foundation \notin IssuerKeys )
        => ( /\ lastCall'.outcome = OnlyIssuerPanic
             /\ certs_map' = certs_map ) ]_vars

\* C6 witness: the administrator's new_cert was refused while another account
\* is an issuer and has issued a certificate.
C6_Witness ==
    /\ lastCall.method = "new_cert"
    /\ lastCall.outcome = OnlyIssuerPanic
    /\ IsAdministrator(lastCall.predecessor)
    /\ contract_foundation \notin IssuerKeys
    /\ Len(issuers) > 0
    /\ Len(certs_map) > 0

\* C7: a mint_cert(A) that succeeds is the administrator's and creates one
\* token: its id is the string of A, its owner is A, its metadata is the
\* metadata of the certificate stored for A when the call was made (titled
\* "L1 Certificate"; when the call before was the new_cert for A, with the
\* media of that call).
C7_MintCreatesToken ==
    [][ ( /\ lastCall'.method = "mint_cert"
          /\ lastCall'.outcome = Ok )
        => LET A == lastCall'.args.account
               id == A.account_id
           IN  /\ IsAdministrator(lastCall'.predecessor)
               /\ A \in CertKeys
               /\ id \notin DOMAIN nft_token.owner_by_id
               /\ DOMAIN nft_token'.owner_by_id
                    = DOMAIN nft_token.owner_by_id \cup {id}
               /\ nft_token'.owner_by_id[id] = A.account_id
               /\ nft_token'.token_metadata_by_id[id] = EntryOf(certs_map, A).metadata
               /\ nft_token'.token_metadata_by_id[id].title = Some("L1 Certificate")
               /\ \A t \in DOMAIN nft_token.owner_by_id :
                    /\ nft_token'.owner_by_id[t] = nft_token.owner_by_id[t]
                    /\ nft_token'.token_metadata_by_id[t]
                         = nft_token.token_metadata_by_id[t]
               /\ lastCall'.ret.token_id = id
               /\ lastCall'.ret.owner_id = A.account_id
               /\ lastCall'.ret.metadata = Some(EntryOf(certs_map, A).metadata)
               /\ ( /\ lastCall.method = "new_cert"
                    /\ lastCall.outcome = Ok
                    /\ lastCall.args.owner_account = A ) =>
                    nft_token'.token_metadata_by_id[id].media
                      = Some(lastCall.args.media_uri) ]_vars

\* C7 witness: the administrator minted the certificate of another account,
\* and the token is that account's.
C7_Witness ==
    /\ lastCall.method = "mint_cert"
    /\ lastCall.outcome = Ok
    /\ lastCall.predecessor # lastCall.args.account.account_id
    /\ nft_token.owner_by_id[lastCall.ret.token_id] = lastCall.args.account.account_id

\* C8: a mint_cert that succeeds leaves the administrator, issuers and the
\* whole certs_map unchanged: the certificate of the owner is still there with
\* is_approved false, and cert_lists returns what it returned before.
C8_MintKeepsCertificates ==
    [][ ( /\ lastCall'.method = "mint_cert"
          /\ lastCall'.outcome = Ok )
        => ( /\ contract_foundation' = contract_foundation
             /\ issuers' = issuers
             /\ certs_map' = certs_map
             /\ UM_iter(certs_map') = UM_iter(certs_map)
             /\ EntryCount(certs_map', lastCall'.args.account) = 1
             /\ EntryOf(certs_map', lastCall'.args.account).is_approved = FALSE ) ]_vars

\* C8 witness: a certificate was minted while two certificates are stored.
C8_Witness ==
    /\ lastCall.method = "mint_cert"
    /\ lastCall.outcome = Ok
    /\ Len(certs_map) = 2
    /\ lastCall.args.account \in CertKeys

\* C9: new_issuer called by an account other than the administrator panics
\* with "Only contract owner can call this fn" and leaves issuers unchanged,
\* also for an account that is registered already.
C9_NonAdminCannotRegister ==
    [][ ( /\ lastCall'.method = "new_issuer"
          /\ state_exists
          /\ ~IsAdministrator(lastCall'.predecessor) )
        => ( /\ lastCall'.outcome = OnlyOwnerPanic
             /\ issuers' = issuers ) ]_vars

\* C9 witness: a registered issuer tried to register itself again and was
\* refused as unauthorized.
C9_Witness ==
    /\ lastCall.method = "new_issuer"
    /\ lastCall.outcome = OnlyOwnerPanic
    /\ lastCall.args.issuer \in IssuerKeys
    /\ lastCall.args.issuer = [account_id |-> lastCall.predecessor]

\* C10: right after a mint_cert(A) that succeeded, transfer_to_owner(A) called
\* by the administrator succeeds, the token A is still owned by A and no
\* approval is held on it.
C10_ReleaseAfterMint ==
    [][ ( /\ lastCall.method = "mint_cert"
          /\ lastCall.outcome = Ok
          /\ lastCall'.method = "transfer_to_owner"
          /\ IsAdministrator(lastCall'.predecessor)
          /\ lastCall'.args.account = lastCall.args.account )
        => LET A == lastCall'.args.account
           IN  /\ lastCall'.outcome = Ok
               /\ nft_token'.owner_by_id[A.account_id] = A.account_id
               /\ A.account_id \notin DOMAIN nft_token'.approvals_by_id ]_vars

\* C11: transfer_to_owner fails, with issuers, certs_map and the tokens
\* unchanged, whenever the caller is not the administrator ("Only contract
\* owner can call this fn") or no token with the id of the account exists
\* (for the administrator: "Token not found").
C11_ReleaseFails ==
    [][ ( /\ lastCall'.method = "transfer_to_owner"
          /\ state_exists
          /\ \/ ~IsAdministrator(lastCall'.predecessor)
             \/ lastCall'.args.account.account_id \notin DOMAIN nft_token.owner_by_id )
        => ( /\ lastCall'.outcome # Ok
             /\ ~IsAdministrator(lastCall'.predecessor)
                  => lastCall'.outcome = OnlyOwnerPanic
             /\ IsAdministrator(lastCall'.predecessor)
                  => lastCall'.outcome = NftTokenNotFound
             /\ issuers' = issuers
             /\ certs_map' = certs_map
             /\ nft_token' = nft_token ) ]_vars

\* C11 witness: the administrator's transfer_to_owner found no token for the
\* account while another account's token exists.
C11_Witness ==
    /\ lastCall.method = "transfer_to_owner"
    /\ lastCall.outcome = NftTokenNotFound
    /\ IsAdministrator(lastCall.predecessor)
    /\ DOMAIN nft_token.owner_by_id # {}

\* C12: the administrator is the account that called new, and it never
\* changes afterwards: a second new panics with "The contract is already
\* initialized" and no other call writes contract_foundation.
C12_AdministratorFixed ==
    [][ /\ ( lastCall'.method = "new" /\ ~state_exists )
             => ( /\ lastCall'.outcome = Ok
                  /\ state_exists'
                  /\ contract_foundation' = [account_id |-> lastCall'.predecessor] )
        /\ ( lastCall'.method = "new" /\ state_exists )
             => lastCall'.outcome = AlreadyInitialized
        /\ state_exists
             => ( state_exists' /\ contract_foundation' = contract_foundation ) ]_vars

\* C12 witness: another account called new on the initialized contract, was
\* refused, and the administrator and the issuers are as they were.
C12_Witness ==
    /\ lastCall.method = "new"
    /\ lastCall.outcome = AlreadyInitialized
    /\ ~IsAdministrator(lastCall.predecessor)
    /\ Len(issuers) > 0

\* C13: every record of certs_map has is_approved = FALSE, and so has the
\* Certificate a new_cert returns; no call sets the flag.
C13_NeverApproved ==
    /\ \A i \in 1..Len(certs_map) : certs_map[i].value.is_approved = FALSE
    /\ ( lastCall.method = "new_cert" /\ lastCall.outcome = Ok )
         => lastCall.ret.is_approved = FALSE

\* C13 witness: a certificate has been minted and its record is not approved.
C13_Witness ==
    /\ lastCall.method = "mint_cert"
    /\ lastCall.outcome = Ok
    /\ EntryOf(certs_map, lastCall.args.account).is_approved = FALSE

\* C14: the issuers only grow: an account that is a key of issuers stays a
\* key, once, with the same profile, so an account that passes only_issuer
\* passes it in every later state.
C14_IssuersOnlyGrow ==
    [][ /\ \A k \in IssuerKeys :
              /\ k \in IssuerKeys'
              /\ EntryCount(issuers', k) = 1
              /\ EntryOf(issuers', k) = EntryOf(issuers, k)
        /\ \A p \in AccountIds : only_issuer(p) => only_issuer(p)' ]_vars

\* C14 witness: with two issuers registered, a registration of one of them
\* under another name has just been turned down.
C14_Witness ==
    /\ lastCall.method = "new_issuer"
    /\ lastCall.outcome = Ok
    /\ lastCall.ret = Bool(FALSE)
    /\ Len(issuers) = 2
    /\ EntryOf(issuers, lastCall.args.issuer).name # lastCall.args.issuer_name

\* C15: a step that changes issuers is a new_issuer called by the
\* administrator, a step that changes certs_map is a new_cert called by a key
\* of issuers, and a step that creates a token is a mint_cert called by the
\* administrator.
C15_WritesAreGuarded ==
    [][ /\ issuers' # issuers
             => ( /\ lastCall'.method = "new_issuer"
                  /\ IsAdministrator(lastCall'.predecessor) )
        /\ certs_map' # certs_map
             => ( /\ lastCall'.method = "new_cert"
                  /\ [account_id |-> lastCall'.predecessor] \in IssuerKeys )
        /\ DOMAIN nft_token'.owner_by_id # DOMAIN nft_token.owner_by_id
             => ( /\ lastCall'.method = "mint_cert"
                  /\ IsAdministrator(lastCall'.predecessor) ) ]_vars

\* C15 witness: an administrator who is no issuer has minted the certificate
\* an issuer created.
C15_Witness ==
    /\ lastCall.method = "mint_cert"
    /\ lastCall.outcome = Ok
    /\ contract_foundation \notin IssuerKeys
    /\ Len(issuers) > 0
    /\ Len(certs_map) > 0

\* C16: new_cert never fails on the lookup of the caller's profile: it ends
\* with the panic of only_issuer (or of the uninitialized contract) or it
\* succeeds, and then the issuer_account of the new certificate is the caller.
C16_IssuerLookupSucceeds ==
    lastCall.method = "new_cert"
      => /\ lastCall.outcome # UnwrapNonePanic
         /\ lastCall.outcome \in {Ok, OnlyIssuerPanic, DefaultPanic}
         /\ lastCall.outcome = Ok
              => /\ lastCall.ret.issuer_account = [account_id |-> lastCall.predecessor]
                 /\ EntryOf(certs_map, lastCall.args.owner_account).issuer_account
                      = [account_id |-> lastCall.predecessor]

\* C16 witness: an issuer other than the administrator has issued a
\* certificate.
C16_Witness ==
    /\ lastCall.method = "new_cert"
    /\ lastCall.outcome = Ok
    /\ ~IsAdministrator(lastCall.predecessor)

\* C17: a token with the id of account A exists only if certs_map has an entry
\* for A; no step removes a key of certs_map or a token.
C17_Lifecycle ==
    [][ /\ \A k \in CertKeys : k \in CertKeys'
        /\ DOMAIN nft_token.owner_by_id \subseteq DOMAIN nft_token'.owner_by_id
        /\ \A t \in DOMAIN nft_token'.owner_by_id :
              [account_id |-> t] \in CertKeys' ]_vars

\* C17 witness: the certificate of an owner whose token exists has been issued
\* again, and both are there.
C17_Witness ==
    /\ lastCall.method = "new_cert"
    /\ lastCall.outcome = Ok
    /\ lastCall.args.owner_account.account_id \in DOMAIN nft_token.owner_by_id
    /\ lastCall.args.owner_account \in CertKeys

\* C18: the issuer_account of every record of certs_map is a key of issuers.
C18_CertIssuerRegistered ==
    \A i \in 1..Len(certs_map) : certs_map[i].value.issuer_account \in IssuerKeys

\* C18 witness: a certificate is stored whose issuer is neither its owner nor
\* the administrator.
C18_Witness ==
    \E i \in 1..Len(certs_map) :
        /\ certs_map[i].value.issuer_account # certs_map[i].key
        /\ certs_map[i].value.issuer_account # contract_foundation

\* C19: a token is minted once per account: a mint_cert for an account whose
\* token exists fails (for the administrator with "token_id must be unique")
\* and changes nothing, whatever new_cert did to the certificate since; the
\* metadata of a token never changes, so it may differ from the metadata of
\* the account's current certificate.
C19_MintOnce ==
    [][ /\ ( /\ lastCall'.method = "mint_cert"
             /\ state_exists
             /\ lastCall'.args.account.account_id \in DOMAIN nft_token.owner_by_id )
             => ( /\ lastCall'.outcome # Ok
                  /\ IsAdministrator(lastCall'.predecessor)
                       => lastCall'.outcome = NftTokenExists
                  /\ UNCHANGED contractVars )
        /\ \A t \in DOMAIN nft_token.token_metadata_by_id :
              /\ t \in DOMAIN nft_token'.token_metadata_by_id
              /\ nft_token'.token_metadata_by_id[t]
                   = nft_token.token_metadata_by_id[t] ]_vars

\* C19 witness: the administrator's second mint_cert for an account was
\* refused after the account's certificate had been replaced: the token still
\* carries the metadata of the certificate that was minted.
C19_Witness ==
    /\ lastCall.method = "mint_cert"
    /\ lastCall.outcome = NftTokenExists
    /\ lastCall.args.account \in CertKeys
    /\ nft_token.token_metadata_by_id[lastCall.args.account.account_id]
         # EntryOf(certs_map, lastCall.args.account).metadata

\* C20: the keys of the maps agree with the records: the record under key k of
\* certs_map has owner_account = k, the profile under key k of issuers has
\* account = k, and the id of a token mint_cert creates is the string of the
\* account it was called with.
C20_KeysAgree ==
    /\ \A i \in 1..Len(certs_map) : certs_map[i].value.owner_account = certs_map[i].key
    /\ \A i \in 1..Len(issuers) : issuers[i].value.account = issuers[i].key
    /\ ( lastCall.method = "mint_cert" /\ lastCall.outcome = Ok )
         => /\ lastCall.ret.token_id = lastCall.args.account.account_id
            /\ lastCall.ret.token_id
                 = EntryOf(certs_map, lastCall.args.account).owner_account.account_id

\* C20 witness: two issuers are registered and two owners hold certificates.
C20_Witness ==
    /\ Len(issuers) = 2
    /\ Len(certs_map) = 2

=============================================================================
